---------------------------- MODULE Spec2Model ----------------------------
(***************************************************************************)
(* Self-play TD learning of a linear chess evaluator                       *)
(* (selfteech_chess.py): the evaluator and its weight file, the one-ply    *)
(* move selector, the self-play driver, the backward TD update and the     *)
(* training loop.  The rules engine (python-chess) is an abstract game     *)
(* graph; Python floats are decimal floating-point numbers of four         *)
(* significant digits with NaN and the two infinities.                     *)
(***************************************************************************)
EXTENDS Integers, Sequences, FiniteSets, TLC

(***************************************************************************)
(* Python float.  A finite number is m * 10^e with m = 0 (and e = 0) or    *)
(* 1000 <= |m| <= 9999, so that equal numbers have equal representations.  *)
(* Every operation rounds its exact result to four significant digits,     *)
(* to nearest, ties to even, as IEEE-754 does at its own precision, and    *)
(* overflows to an infinity beyond the largest double (1.797e308).         *)
(***************************************************************************)
F(m, e) == [k |-> "fin", m |-> m, e |-> e]
NaN == [k |-> "nan", m |-> 0, e |-> 0]
PosInf == [k |-> "inf", m |-> 1, e |-> 0]
NegInf == [k |-> "inf", m |-> -1, e |-> 0]
Zero == F(0, 0)

Abs(n) == IF n < 0 THEN -n ELSE n
Sign(n) == IF n < 0 THEN -1 ELSE IF n > 0 THEN 1 ELSE 0

Pow10(d) ==
    CASE d = 0 -> 1 [] d = 1 -> 10 [] d = 2 -> 100 [] d = 3 -> 1000
      [] d = 4 -> 10000 [] d = 5 -> 100000 [] d = 6 -> 1000000
      [] d = 7 -> 10000000 [] d = 8 -> 100000000 [] d = 9 -> 1000000000

Digits(n) ==
    IF n < 10 THEN 1 ELSE IF n < 100 THEN 2 ELSE IF n < 1000 THEN 3
    ELSE IF n < 10000 THEN 4 ELSE IF n < 100000 THEN 5
    ELSE IF n < 1000000 THEN 6 ELSE IF n < 10000000 THEN 7
    ELSE IF n < 100000000 THEN 8 ELSE IF n < 1000000000 THEN 9 ELSE 10

\* n / 10^d rounded to nearest, ties to even (n >= 0).
RoundDiv(n, d) ==
    LET p == Pow10(d)
        q == n \div p
        r == n % p
    IN  IF 2 * r > p \/ (2 * r = p /\ q % 2 = 1) THEN q + 1 ELSE q

\* The float nearest to s * n * 10^e (s the sign, n >= 0).
Norm(s, n, e) ==
    IF n = 0 \/ s = 0 THEN Zero
    ELSE LET dg == Digits(n)
             drop == dg - 4
             q0 == IF drop > 0 THEN RoundDiv(n, drop) ELSE n * Pow10(-drop)
             q == IF q0 = 10000 THEN 1000 ELSE q0
             x == IF q0 = 10000 THEN e + drop + 1 ELSE e + drop
         IN  IF x > 305 \/ (x = 305 /\ q > 1797)
               THEN (IF s > 0 THEN PosInf ELSE NegInf)
             ELSE IF x < -327 THEN Zero
             ELSE F(s * q, x)

FNeg(a) == IF a.k = "nan" THEN NaN ELSE [a EXCEPT !.m = -a.m]

FAdd(a, b) ==
    IF a.k = "nan" \/ b.k = "nan" THEN NaN
    ELSE IF a.k = "inf" /\ b.k = "inf" THEN (IF a.m = b.m THEN a ELSE NaN)
    ELSE IF a.k = "inf" THEN a
    ELSE IF b.k = "inf" THEN b
    ELSE IF a.m = 0 THEN b
    ELSE IF b.m = 0 THEN a
    ELSE LET hi == IF a.e >= b.e THEN a ELSE b
             lo == IF a.e >= b.e THEN b ELSE a
             d == hi.e - lo.e
         IN  IF d > 5 THEN hi
             ELSE LET n == hi.m * Pow10(d) + lo.m
                  IN  Norm(Sign(n), Abs(n), lo.e)

FSub(a, b) == FAdd(a, FNeg(b))

FMul(a, b) ==
    IF a.k = "nan" \/ b.k = "nan" THEN NaN
    ELSE IF a.k = "inf" \/ b.k = "inf"
      THEN (IF a.m = 0 \/ b.m = 0 THEN NaN
            ELSE IF Sign(a.m) = Sign(b.m) THEN PosInf ELSE NegInf)
    ELSE Norm(Sign(a.m) * Sign(b.m), Abs(a.m) * Abs(b.m), a.e + b.e)

\* Python's a < b: false whenever an operand is NaN.
FLt(a, b) ==
    IF a.k = "nan" \/ b.k = "nan" THEN FALSE
    ELSE IF a.k = "inf" THEN a.m < 0 /\ b # a
    ELSE IF b.k = "inf" THEN b.m > 0
    ELSE IF Sign(a.m) # Sign(b.m) THEN Sign(a.m) < Sign(b.m)
    ELSE IF a.m = 0 THEN FALSE
    ELSE IF a.m > 0 THEN a.e < b.e \/ (a.e = b.e /\ a.m < b.m)
    ELSE a.e > b.e \/ (a.e = b.e /\ a.m < b.m)

FGt(a, b) == FLt(b, a)
\* Python's a == b on floats.
FEq(a, b) == a.k # "nan" /\ b.k # "nan" /\ a = b
FLe(a, b) == FLt(a, b) \/ FEq(a, b)

\* Python's builtin min(a, b) and max(a, b): the first argument unless the
\* second compares strictly smaller (larger).
PyMin(a, b) == IF FLt(b, a) THEN b ELSE a
PyMax(a, b) == IF FGt(b, a) THEN b ELSE a

One == F(1000, -3)
Half == F(5000, -4)

(***************************************************************************)
(* Hyperparameters.                                                        *)
(***************************************************************************)
EPSILON == F(5000, -4)
ALPHA == F(5000, -7)
DISCOUNT == F(1000, -3)
MAX_MOVES == 600
WHITE == TRUE
BLACK == FALSE

(***************************************************************************)
(* Bounds of the model.                                                    *)
(***************************************************************************)
\* Games played by all runs together.
MaxGames == 2
\* Processes started one after the other on the same weight file.
MaxRuns == 2
\* Games of a run whose games may reach the ply bound.
MaxLongGames == 1
\* Plies of a trajectory handed to td_update on its own.
MaxTraj == 2

(***************************************************************************)
(* The rules engine.  A position is a node of a game graph; a move is      *)
(* named by the position it leads to.  Position 0 is chess.Board().        *)
(* Positions 3 and 9 form a forced line on which the engine never reports  *)
(* the game over; the "short" engine leaves that line out.                 *)
(***************************************************************************)
None == -1

\* list(board.legal_moves), in the engine's move order.
legal_moves(eng, p) ==
    CASE p = 0 -> IF eng = "full" THEN <<1, 2, 10, 3>> ELSE <<1, 2, 10>>
      [] p = 1 -> <<4, 5>>
      [] p = 2 -> <<5, 6>>
      [] p = 3 -> <<9>>
      [] p = 5 -> <<8, 7>>
      [] p = 9 -> <<3>>
      [] p = 10 -> <<6>>
      [] OTHER -> <<>>

\* board.turn
turn(p) == p \in {0, 4, 5, 6, 9}

\* board.result(claim_draw=True)
board_result(p) ==
    CASE p = 4 -> "0-1"
      [] p = 7 -> "1-0"
      [] p \in {6, 8} -> "1/2-1/2"
      [] OTHER -> "*"

\* board.is_game_over(claim_draw=True)
is_game_over(p) == board_result(p) # "*"

\* extract_features(board): [mat_diff, mobility_diff, center_diff,
\* pawn_struct_diff, bias].
extract_features(p) ==
    CASE p \in {0, 6} -> <<Zero, Zero, Zero, Zero, One>>
      [] p \in {1, 2} -> <<Zero, F(5000, -4), F(2500, -4), Zero, One>>
      [] p = 3 -> <<Zero, F(1000, -4), Zero, Zero, One>>
      [] p = 9 -> <<Zero, F(-1000, -4), Zero, Zero, One>>
      [] p = 4 -> <<F(-1000, -4), F(-1000, -3), Zero, Zero, One>>
      [] p = 5 -> <<F(1000, -4), F(2000, -4), F(2500, -4), F(-5000, -4), One>>
      [] p = 7 -> <<F(9000, -4), F(1500, -3), Half, Zero, One>>
      [] p = 8 -> <<F(-3000, -4), F(5000, -5), Zero, Half, One>>
      [] p = 10 -> <<F(-1000, -4), F(1000, -4), Zero, Zero, One>>

(***************************************************************************)
(* LinearEvaluator.                                                        *)
(***************************************************************************)
DefaultW == <<One, F(1000, -4), Half, Half, Zero>>

Min(a, b) == IF a < b THEN a ELSE b

RECURSIVE SumProducts(_, _, _)
SumProducts(ws, fs, n) ==
    IF n = 0 THEN Zero
    ELSE FAdd(SumProducts(ws, fs, n - 1), FMul(ws[n], fs[n]))

\* LinearEvaluator.value: sum(w*f for w,f in zip(self.w, features)).
value(ws, fs) == SumProducts(ws, fs, Min(Len(ws), Len(fs)))

\* Variant: the sign of a finite number is not written.
PickleFloatUnsigned(x) ==
    LET tag == IF x.k = "nan" THEN 2
               ELSE IF x.k = "inf" THEN (IF x.m > 0 THEN 3 ELSE 4)
               ELSE 0
        mag == IF x.k = "fin" THEN Abs(x.m) ELSE 0
        ex == IF x.k = "fin" THEN x.e + 512 ELSE 0
    IN  <<tag, mag \div 256, mag % 256, ex \div 256, ex % 256>>

\* pickle of one float: a tag for the sign or the special value, then the
\* mantissa and the biased exponent as two bytes each, big-endian.
PickleFloat(x) ==
    LET tag == IF x.k = "nan" THEN 2
               ELSE IF x.k = "inf" THEN (IF x.m > 0 THEN 3 ELSE 4)
               ELSE IF x.m < 0 THEN 1 ELSE 0
        mag == IF x.k = "fin" THEN Abs(x.m) ELSE 0
        ex == IF x.k = "fin" THEN x.e + 512 ELSE 0
    IN  <<tag, mag \div 256, mag % 256, ex \div 256, ex % 256>>

UnpickleFloat(b) ==
    LET mag == b[2] * 256 + b[3]
        ex == b[4] * 256 + b[5] - 512
    IN  CASE b[1] = 2 -> NaN
          [] b[1] = 3 -> PosInf
          [] b[1] = 4 -> NegInf
          [] b[1] = 1 -> F(-mag, ex)
          [] OTHER -> F(mag, ex)

\* pickle.dump(self.w, f) and pickle.load(f) of a list of floats.
PickleDump(ws) == [i \in 1..Len(ws) |-> PickleFloat(ws[i])]
PickleLoad(data) == [i \in 1..Len(data) |-> UnpickleFloat(data[i])]

NoFile == [exists |-> FALSE, data |-> <<>>]
\* LinearEvaluator.save: the weight file after the write.
save(ws) == [exists |-> TRUE, data |-> PickleDump(ws)]

\* Variant: no length check.
LoadUnchecked(f) == PickleLoad(f.data)

\* LinearEvaluator.load: the weights after reading the file.
load(f) ==
    LET stored == PickleLoad(f.data)
    IN  IF Len(stored) # 5 THEN DefaultW ELSE stored

\* random.uniform(-0.05, 0.05), one draw per weight component.
Perturbations ==
    { <<Zero, Zero, Zero, Zero, Zero>>,
      <<F(5000, -5), F(-5000, -5), F(2000, -5), F(-1000, -5), F(3000, -5)>>,
      <<F(-5000, -5), F(4000, -5), F(-3000, -5), F(5000, -5), F(-2000, -5)>> }

\* LinearEvaluator.__init__ without a weight file: the prior, perturbed.
PerturbedPrior(d) == [i \in 1..5 |-> FAdd(DefaultW[i], d[i])]

(***************************************************************************)
(* choose_move.                                                            *)
(***************************************************************************)
\* random.random(): draws from [0, 1).
RandomDraws == {Zero, F(7500, -4)}
Sentinel == F(1000, 6)

\* The value of the position after board.push(mv).
MoveValue(ws, mv) == value(ws, extract_features(mv))

\* Variant: the test of the scan with >= and <=.
BetterOrEqual(side, val, best) ==
    IF side = WHITE THEN ~FLt(val, best) /\ val.k # "nan" /\ best.k # "nan"
    ELSE ~FGt(val, best) /\ val.k # "nan" /\ best.k # "nan"

\* The test of the scan: val > best_val for White, val < best_val for Black.
Better(side, val, best) ==
    IF side = WHITE THEN FGt(val, best) ELSE FLt(val, best)

\* The loop over legal: <<best_move, best_val>> after the first n moves.
RECURSIVE Scan(_, _, _, _)
Scan(legal, side, ws, n) ==
    IF n = 0
      THEN <<None, IF side = WHITE THEN FNeg(Sentinel) ELSE Sentinel>>
    ELSE LET prev == Scan(legal, side, ws, n - 1)
             val == MoveValue(ws, legal[n])
         IN  IF Better(side, val, prev[2]) THEN <<legal[n], val>> ELSE prev

SeqRange(s) == {s[i] : i \in 1..Len(s)}

\* The moves choose_move(board, evaluator, eps) may return at position p.
choose_move(eng, p, ws, eps) ==
    LET legal == legal_moves(eng, p)
        best == Scan(legal, turn(p), ws, Len(legal))[1]
    IN  IF legal = <<>> THEN {None}
        ELSE UNION { IF FLt(r, eps) THEN SeqRange(legal)
                     ELSE IF best # None THEN {best}
                     ELSE SeqRange(legal) : r \in RandomDraws }

(***************************************************************************)
(* td_update, one ply.                                                     *)
(***************************************************************************)
\* max(min(x, hi), lo)
Clamp(x, lo, hi) == PyMax(PyMin(x, hi), lo)

\* terminal_value = (z-0.5)*2.0
TerminalValue(zz) == FMul(FSub(zz, Half), F(2000, -3))

\* v_next of ply n of a trajectory of T plies, from the value list vs.
NextValue(vs, zz, n, T) == IF n = T THEN TerminalValue(zz) ELSE vs[n + 1]

\* delta = discount*v_next - v_t, clamped to [-1, 1].
Delta(vs, zz, disc, n, T) ==
    Clamp(FSub(FMul(disc, NextValue(vs, zz, n, T)), vs[n]), FNeg(One), One)

\* update = alpha*delta*feats[i], clamped to [-0.05, 0.05].
Update(al, dl, f) ==
    Clamp(FMul(FMul(al, dl), f), F(-5000, -5), F(5000, -5))

\* evaluator.w[i] *= 0.9999
Decay(x) == FMul(x, F(9999, -4))

(***************************************************************************)
(* The state.                                                              *)
(***************************************************************************)
VARIABLES
    engine,        \* the rules engine's game graph
    file,          \* weights.pkl
    run,           \* processes started so far
    pc,            \* where the process is
    num_games, epsilon, alpha, discount,   \* the parameters of the run
    w,             \* evaluator.w
    g,             \* play_and_learn's loop variable
    stats,         \* play_and_learn's counters
    board,         \* the positions the board went through, the last current
    states_feats,  \* play_self_game's trajectory
    moves_made,    \* play_self_game's ply counter
    mv,            \* the move choose_move returned last
    result, z,     \* play_self_game's result string and outcome
    V, t,          \* td_update's value list and loop variable (1-based)
    delta, update, \* td_update's TD error and steps of the ply done last
    file0,         \* history: the weight file when the process started
    saves,         \* history: save() calls of the process
    saved_w,       \* history: the weights the last save() call wrote
    prior_used,    \* history: __init__ drew the random prior
    w_call,        \* history: the weights when play_self_game was called
    w_td,          \* history: the weights when td_update was called
    updated,       \* history: td_update calls that returned in the process
    played         \* history: games started by all processes so far

vars == <<engine, file, run, pc, num_games, epsilon, alpha, discount, w, g,
          stats, board, states_feats, moves_made, mv, result, z, V, t, delta,
          update, file0, saves, saved_w, prior_used, w_call, w_td, updated,
          played>>

config == <<engine, num_games, epsilon, alpha, discount>>
game == <<board, states_feats, moves_made, mv, result, z>>
tdvars == <<V, t, delta, update, w_td>>
history == <<file0, saves, saved_w, prior_used, played>>

Current == board[Len(board)]

(***************************************************************************)
(* Inputs.                                                                 *)
(***************************************************************************)
GoodW == <<F(9000, -4), F(2000, -4), F(4000, -4), F(6000, -4), F(1000, -4)>>
HugeW == <<F(1000, 6), Zero, Zero, Zero, F(-3000, 6)>>
ShortW == <<One, Half, Zero>>
LongW == <<One, Half, Zero, Zero, One, One>>

\* What weights.pkl may hold when the first process starts.
Files == {NoFile, save(GoodW), save(HugeW), save(ShortW), save(LongW), save(<<>>)}
\* float(input(...)) for alpha and epsilon.
Alphas == {ALPHA, F(1000, -4), NaN}
Epsilons == {Zero, EPSILON}

\* int(input(...)) for the number of games, n games having been played.
RunGames(n) == 0..(MaxGames - n)

NoStats == [white |-> 0, black |-> 0, draw |-> 0]

\* A process that has read its parameters and not yet built the evaluator.
Boot(f, r, ng, eps, al, disc) ==
    /\ file = f /\ file0 = f /\ run = r /\ pc = "boot"
    /\ num_games = ng /\ epsilon = eps /\ alpha = al /\ discount = disc
    /\ w = <<>> /\ g = 0 /\ stats = NoStats
    /\ board = <<0>> /\ states_feats = <<>> /\ moves_made = 0 /\ mv = None
    /\ result = "*" /\ z = Half
    /\ V = <<>> /\ t = 0 /\ delta = Zero /\ update = <<>>
    /\ saves = 0 /\ prior_used = FALSE
    /\ w_call = <<>> /\ w_td = <<>> /\ updated = 0

Init ==
    /\ engine = "short"
    /\ saved_w = <<>>
    /\ played = 0
    /\ \E f \in Files, ng \in RunGames(0), eps \in Epsilons, al \in Alphas :
          Boot(f, 1, ng, eps, al, DISCOUNT)

(***************************************************************************)
(* LinearEvaluator() and the training loop.                                *)
(***************************************************************************)
\* evaluator = LinearEvaluator(); stats = {...}
Construct ==
    /\ pc = "boot"
    /\ IF file.exists
         THEN w' = load(file) /\ prior_used' = FALSE
         ELSE \E d \in Perturbations :
                 w' = PerturbedPrior(d) /\ prior_used' = TRUE
    /\ stats' = NoStats
    /\ g' = 0
    /\ pc' = "loop"
    /\ UNCHANGED <<config, file, run, game, tdvars, file0, saves, saved_w,
                   played, w_call, updated>>

\* for g in range(1, num_games+1): the call of play_self_game.
StartGame ==
    /\ pc = "loop"
    /\ g < num_games
    /\ g' = g + 1
    /\ board' = <<0>>
    /\ states_feats' = <<>>
    /\ moves_made' = 0
    /\ mv' = None
    /\ w_call' = w
    /\ played' = played + 1
    /\ pc' = "game"
    /\ UNCHANGED <<config, file, run, w, stats, result, z, tdvars, file0,
                   saves, saved_w, prior_used, updated>>

\* Variant: the weights are saved, and the run ends, after the first game.
SaveAfterFirstGame ==
    /\ pc = "loop"
    /\ g >= Min(1, num_games)
    /\ file' = save(w)
    /\ saves' = saves + 1
    /\ saved_w' = w
    /\ pc' = "done"
    /\ UNCHANGED <<config, run, w, g, stats, game, tdvars, file0, prior_used,
                   played, w_call, updated>>

\* The loop is exhausted: evaluator.save() and return.
Save ==
    /\ pc = "loop"
    /\ g >= num_games
    /\ file' = save(w)
    /\ saves' = saves + 1
    /\ saved_w' = w
    /\ pc' = "done"
    /\ UNCHANGED <<config, run, w, g, stats, game, tdvars, file0, prior_used,
                   played, w_call, updated>>

(***************************************************************************)
(* play_self_game.                                                         *)
(***************************************************************************)
\* Variant: the bound tested with <= (one ply too many).
LoopCondInclusive(p, mm) == ~is_game_over(p) /\ mm <= MAX_MOVES

\* while not board.is_game_over(claim_draw=True) and moves_made<MAX_MOVES
LoopCond(p, mm) == ~is_game_over(p) /\ mm < MAX_MOVES

\* Variant: the entry taken after board.push(mv).
EntryAfterPush(p, q) == <<extract_features(q), turn(q)>>

\* states_feats.append((feats, board.turn)), before board.push(mv):
\* the entry for the move from position p to position q.
Entry(p, q) == <<extract_features(p), turn(p)>>

\* One iteration of the loop; wNext is evaluator.w after it.
PlayPly(wNext) ==
    /\ pc = "game"
    /\ LoopCond(Current, moves_made)
    /\ \E m \in choose_move(engine, Current, w, epsilon) :
          /\ mv' = m
          /\ IF m = None
               THEN /\ pc' = "result"
                    /\ UNCHANGED <<board, states_feats, moves_made>>
               ELSE /\ states_feats' = Append(states_feats, Entry(Current, m))
                    /\ board' = Append(board, m)
                    /\ moves_made' = moves_made + 1
                    /\ pc' = "game"
    /\ w' = wNext
    /\ UNCHANGED <<config, file, run, g, stats, result, z, tdvars, history,
                   w_call, updated>>

\* Variant: the weights decay at every ply played.
GameStepDecaying == PlayPly([i \in 1..Len(w) |-> Decay(w[i])])

GameStep == PlayPly(w)

\* Variant: only a reported draw is a draw, an unfinished game a loss.
OutcomeUnfinishedLost(res) ==
    IF res = "1-0" THEN One ELSE IF res = "1/2-1/2" THEN Half ELSE Zero

\* if result=="1-0": z=1.0 / elif result=="0-1": z=0.0 / else: z=0.5
Outcome(res) ==
    IF res = "1-0" THEN One ELSE IF res = "0-1" THEN Zero ELSE Half

\* The loop is left: the result, z, the PGN record, return.
GameReturn ==
    /\ \/ pc = "game" /\ ~LoopCond(Current, moves_made)
       \/ pc = "result"
    /\ result' = board_result(Current)
    /\ z' = Outcome(board_result(Current))
    /\ pc' = "count"
    /\ UNCHANGED <<config, file, run, w, g, stats, board, states_feats,
                   moves_made, mv, tdvars, history, w_call, updated>>

\* if z==1.0: stats["white"]+=1 / elif z==0.0: stats["black"]+=1 / else: draw
Count(st, zz) ==
    IF FEq(zz, One) THEN [st EXCEPT !.white = @ + 1]
    ELSE IF FEq(zz, Zero) THEN [st EXCEPT !.black = @ + 1]
    ELSE [st EXCEPT !.draw = @ + 1]

CountStats ==
    /\ pc = "count"
    /\ stats' = Count(stats, z)
    /\ pc' = "td_call"
    /\ UNCHANGED <<config, file, run, w, g, game, tdvars, history, w_call,
                   updated>>

(***************************************************************************)
(* td_update.                                                              *)
(***************************************************************************)
\* V = [evaluator.value(feats) for feats,_ in states_feats]
Values(ws, traj) == [n \in 1..Len(traj) |-> value(ws, traj[n][1])]

\* T = len(states_feats); if T==0: return; V = ...
TdEnter ==
    /\ pc = "td_call"
    /\ w_td' = w
    /\ IF Len(states_feats) = 0
         THEN /\ pc' = "loop"
              /\ updated' = updated + 1
              /\ UNCHANGED <<V, t>>
         ELSE /\ V' = Values(w, states_feats)
              /\ t' = Len(states_feats)
              /\ pc' = "td"
              /\ UNCHANGED updated
    /\ UNCHANGED <<config, file, run, w, g, stats, game, delta, update,
                   history, w_call>>

\* One iteration of for t in range(T-1,-1,-1), reading the values vs.
TdPlyWith(vs) ==
    /\ pc = "td"
    /\ LET dl == Delta(vs, z, discount, t, Len(states_feats))
           feats == states_feats[t][1]
           ups == [i \in 1..Len(w) |-> Update(alpha, dl, feats[i])]
       IN  /\ delta' = dl
           /\ update' = ups
           /\ w' = [i \in 1..Len(w) |-> Decay(FAdd(w[i], ups[i]))]
    /\ t' = t - 1
    /\ IF t = 1
         THEN pc' = "loop" /\ updated' = updated + 1
         ELSE pc' = "td" /\ UNCHANGED updated
    /\ UNCHANGED <<config, file, run, g, stats, game, V, w_td, history,
                   w_call>>

\* Variant: the values are read under the weights as they are now.
TdPlyLive == TdPlyWith(Values(w, states_feats))

TdPly == TdPlyWith(V)

(***************************************************************************)
(* The process dies, and a later process starts on the same weight file.   *)
(***************************************************************************)
Blank ==
    /\ w' = <<>> /\ g' = 0 /\ stats' = NoStats
    /\ board' = <<0>> /\ states_feats' = <<>> /\ moves_made' = 0
    /\ mv' = None /\ result' = "*" /\ z' = Half
    /\ V' = <<>> /\ t' = 0 /\ delta' = Zero /\ update' = <<>>
    /\ w_call' = <<>> /\ w_td' = <<>>

Crash ==
    /\ pc \notin {"done", "crashed"}
    /\ pc' = "crashed"
    /\ Blank
    /\ UNCHANGED <<config, file, run, history, updated>>

Restart ==
    /\ pc \in {"done", "crashed"}
    /\ run < MaxRuns
    /\ run' = run + 1
    /\ pc' = "boot"
    /\ file0' = file
    /\ saves' = 0
    /\ prior_used' = FALSE
    /\ updated' = 0
    /\ Blank
    /\ \E ng \in RunGames(played), eps \in Epsilons, al \in Alphas :
          num_games' = ng /\ epsilon' = eps /\ alpha' = al
    /\ UNCHANGED <<engine, discount, file, saved_w, played>>

Next ==
    \/ Construct
    \/ StartGame
    \/ GameStep
    \/ GameReturn
    \/ CountStats
    \/ TdEnter
    \/ TdPly
    \/ Save
    \/ Crash
    \/ Restart

Spec == Init /\ [][Next]_vars

\* One run, to its end, on the full game graph, whose games may reach the
\* ply bound.
InitLong ==
    /\ engine = "full"
    /\ saved_w = <<>>
    /\ played = 0
    /\ \E f \in {NoFile, save(GoodW)}, ng \in 0..MaxLongGames :
          Boot(f, 1, ng, EPSILON, ALPHA, DISCOUNT)

NextLong ==
    \/ Construct
    \/ StartGame
    \/ GameStep
    \/ GameReturn
    \/ CountStats
    \/ TdEnter
    \/ TdPly
    \/ Save

SpecLong == InitLong /\ [][NextLong]_vars

(***************************************************************************)
(* td_update on its own: any trajectory of at most MaxTraj plies, any      *)
(* outcome, learning rate, discount and starting weights.                  *)
(***************************************************************************)
RECURSIVE SeqsUpTo(_, _)
SeqsUpTo(S, n) ==
    IF n = 0 THEN {<<>>}
    ELSE LET shorter == SeqsUpTo(S, n - 1)
         IN  shorter \cup {Append(q, x) : q \in shorter, x \in S}

TdEntries == {Entry(p, p) : p \in {0, 1, 5, 7}}
TdWeights == {DefaultW, GoodW, HugeW}
TdAlphas == {ALPHA, F(1000, -4), F(2000, -3)}
TdDiscounts == {DISCOUNT, F(9000, -4)}

InitTd ==
    /\ engine = "short"
    /\ saved_w = <<>>
    /\ played = 1
    /\ \E traj \in SeqsUpTo(TdEntries, MaxTraj), zz \in {Zero, Half, One},
          al \in TdAlphas, disc \in TdDiscounts, ws \in TdWeights :
          /\ file = NoFile /\ file0 = NoFile /\ run = 1 /\ pc = "td_call"
          /\ num_games = 1 /\ epsilon = EPSILON /\ alpha = al
          /\ discount = disc
          /\ w = ws /\ g = 1 /\ stats = Count(NoStats, zz)
          /\ board = <<0>> /\ states_feats = traj /\ moves_made = Len(traj)
          /\ mv = None /\ result = "*" /\ z = zz
          /\ V = <<>> /\ t = 0 /\ delta = Zero /\ update = <<>>
          /\ saves = 0 /\ prior_used = FALSE
          /\ w_call = ws /\ w_td = <<>> /\ updated = 0

NextTd == TdEnter \/ TdPly

SpecTd == InitTd /\ [][NextTd]_vars

(***************************************************************************)
(* The properties.                                                         *)
(***************************************************************************)
InGame == pc \in {"game", "result", "count"}

\* C1: from the call of play_self_game to its return (and until td_update is
\* called) the weights are those the evaluator had when play_self_game was
\* called, and a weight changes only when the evaluator is built, in a step
\* of td_update, or when the process dies or a new one starts: no ply of a
\* game changes one.
C1_WeightsFrozenInGame ==
    [][ /\ InGame' => w' = w_call'
        /\ w' # w => (pc \in {"boot", "td"} \/ pc' \in {"crashed", "boot"})
      ]_vars

\* C1 witness: a second game has returned after playing plies, with weights
\* that the first game's td_update had changed.
C1_Witness ==
    /\ pc = "count" /\ g = 2 /\ moves_made >= 2
    /\ updated = 1 /\ w = w_call

\* C2: a process saves once, when it is done and not before every one of its
\* num_games games has been played and its td_update applied; until then the
\* weight file is the one the process started with, also when it has died.
C2_SavedOnceAtEnd ==
    /\ saves <= 1
    /\ pc = "done" => saves = 1
    /\ saves = 1 => pc = "done" /\ g = num_games /\ updated = num_games
    /\ saves = 0 => file = file0

\* C2 witness: a process died after a completed game and its update, and the
\* weight file is still the one it started with.
C2_Witness ==
    /\ pc = "crashed" /\ updated >= 1 /\ saves = 0 /\ file = file0

\* C3: every iteration of the game loop applies exactly one move, and runs
\* only while the engine does not report the game over and fewer than
\* MAX_MOVES moves were applied; so the counter, which bounds the moves
\* applied to the board, never passes MAX_MOVES and the loop ends.
C3_GameLoopBounded ==
    [][ /\ moves_made' <= MAX_MOVES
        /\ Len(board') - 1 <= MAX_MOVES
        /\ (pc = "game" /\ pc' = "game") =>
              /\ moves_made' = moves_made + 1
              /\ moves_made < MAX_MOVES
              /\ ~is_game_over(board[Len(board)]) ]_vars

\* C3 witness: a game was stopped by the ply bound on a position the engine
\* does not report over.
C3_Witness ==
    /\ pc = "count" /\ moves_made = MAX_MOVES /\ ~is_game_over(Current)

\* C4: the trajectory has one entry per move applied to the board; entry n
\* holds the features and the side to move of the position move n was played
\* from, and the current position has no entry.
C4_TrajectoryPerPly ==
    /\ Len(states_feats) = moves_made
    /\ Len(states_feats) = Len(board) - 1
    /\ \A n \in 1..Len(states_feats) :
          states_feats[n] = <<extract_features(board[n]), turn(board[n])>>

\* C4 witness: a game of at least two plies has ended on a position the
\* engine reports over.
C4_Witness ==
    /\ pc = "count" /\ moves_made >= 2 /\ is_game_over(Current)
    /\ Len(states_feats) = moves_made

\* C5: when play_self_game returns, z is 1.0 for "1-0", 0.0 for "0-1" and
\* 0.5 for every other result, in particular for a game stopped by the ply
\* bound; the training loop then increments exactly one counter, the one
\* that matches z.
C5_OutcomeCounted ==
    [][ /\ (pc # "count" /\ pc' = "count") =>
              LET res == board_result(board[Len(board)])
              IN  /\ result' = res
                  /\ res = "1-0" => z' = F(1000, -3)
                  /\ res = "0-1" => z' = F(0, 0)
                  /\ res \notin {"1-0", "0-1"} => z' = F(5000, -4)
                  /\ (moves_made = MAX_MOVES /\ res = "*") => z' = F(5000, -4)
        /\ (pc = "count" /\ pc' = "td_call") =>
              /\ stats'.white =
                    stats.white + (IF z = F(1000, -3) THEN 1 ELSE 0)
              /\ stats'.black = stats.black + (IF z = F(0, 0) THEN 1 ELSE 0)
              /\ stats'.draw = stats.draw + (IF z = F(5000, -4) THEN 1 ELSE 0)
              /\ stats'.white + stats'.black + stats'.draw
                    = stats.white + stats.black + stats.draw + 1 ]_vars

\* C5 witness: a game stopped by the ply bound, not over for the engine, was
\* counted as a draw.
C5_Witness ==
    /\ pc = "td_call" /\ moves_made = MAX_MOVES /\ board_result(Current) = "*"
    /\ z = Half /\ stats.draw >= 1

\* C6: an evaluator always has five weights; built from a weight file, it has
\* the default weights if the stored vector's length is not five, and the
\* stored vector otherwise.
C6_LoadLength ==
    /\ pc \notin {"boot", "crashed"} => Len(w) = 5
    /\ (pc = "loop" /\ g = 0 /\ file0.exists) =>
          LET stored == PickleLoad(file0.data)
          IN  /\ Len(stored) # 5 =>
                    w = <<F(1000, -3), F(1000, -4), F(5000, -4), F(5000, -4),
                          F(0, 0)>>
              /\ Len(stored) = 5 => w = stored

\* C6 witness: an evaluator was built from a file that stores three numbers.
C6_Witness ==
    /\ pc = "loop" /\ g = 0 /\ file0.exists /\ Len(file0.data) = 3
    /\ w = DefaultW

\* C7: the weights read back from a file that save() wrote are the weights
\* that were saved, in the saving process and in an evaluator a later process
\* builds; the random prior is drawn only when there is no weight file.
C7_SaveLoadRoundTrip ==
    /\ pc = "done" => load(file) = w
    /\ (pc = "loop" /\ g = 0 /\ saved_w # <<>>) => w = saved_w /\ ~prior_used
    /\ prior_used => ~file0.exists

\* C7 witness: a second process has built its evaluator from the file that
\* the first wrote after a game, and holds the weights saved, one of them
\* negative.
C7_Witness ==
    /\ run = 2 /\ pc = "loop" /\ g = 0 /\ played >= 1
    /\ saved_w # <<>> /\ w = saved_w
    /\ \E i \in 1..Len(w) : FLt(w[i], Zero)

\* C8: for every ply td_update has processed, each additive step lies in
\* [-0.05, 0.05] and the TD error in [-1.0, 1.0].
C8_StepsBounded ==
    update # <<>> =>
       /\ FLe(F(-1000, -3), delta) /\ FLe(delta, F(1000, -3))
       /\ \A i \in 1..Len(update) :
             FLe(F(-5000, -5), update[i]) /\ FLe(update[i], F(5000, -5))

\* The position the last move was chosen at, its legal moves and their values.
Chosen == pc \in {"game", "count"} /\ moves_made >= 1
ChosenAt == board[Len(board) - 1]
ChosenLegal == legal_moves(engine, ChosenAt)
ChosenVal(n) == value(w, extract_features(ChosenLegal[n]))
Beats(side, a, b) == IF side = WHITE THEN FGt(a, b) ELSE FLt(a, b)
\* The move returned is a legal move, no legal move has a strictly better
\* value, and no earlier legal move has the same value.
EarliestBest ==
    \E n \in 1..Len(ChosenLegal) :
       /\ ChosenLegal[n] = mv
       /\ \A j \in 1..Len(ChosenLegal) :
             ~Beats(turn(ChosenAt), ChosenVal(j), ChosenVal(n))
       /\ \A j \in 1..(n - 1) : ~FEq(ChosenVal(j), ChosenVal(n))
\* Some legal move's value beats the scan's initial best_val.
SomeBeatsSentinel ==
    \E j \in 1..Len(ChosenLegal) :
       Beats(turn(ChosenAt), ChosenVal(j),
             IF turn(ChosenAt) = WHITE THEN F(-1000, 6) ELSE F(1000, 6))

\* C9 as claimed: with epsilon = 0 the move returned is the earliest legal
\* move of best value for the side to move.
C9_GreedyEarliestBest ==
    (Chosen /\ FEq(epsilon, Zero)) => EarliestBest

\* C9 as amended: with epsilon = 0, if the value of some legal move beats the
\* initial best_val (above -1e9 for White, below 1e9 for Black) the move
\* returned is the earliest legal move of best value, and that value beats
\* the initial best_val; otherwise it is some legal move.
C9_GreedyEarliestBestPastSentinel ==
    (Chosen /\ FEq(epsilon, Zero)) =>
       IF SomeBeatsSentinel
         THEN /\ EarliestBest
              /\ Beats(turn(ChosenAt), value(w, extract_features(mv)),
                       IF turn(ChosenAt) = WHITE THEN F(-1000, 6)
                       ELSE F(1000, 6))
         ELSE mv \in SeqRange(ChosenLegal)

\* C9 witness: with epsilon = 0 the first of two equally valued best moves
\* was returned at the start position.
C9_Witness ==
    /\ Chosen /\ FEq(epsilon, Zero) /\ board = <<0, 1>> /\ mv = 1
    /\ FEq(value(w, extract_features(1)), value(w, extract_features(2)))
    /\ FGt(value(w, extract_features(1)), value(w, extract_features(10)))

\* The weights after td_update has processed plies T down to n of the
\* trajectory, every TD error taken from the values vs0.
RECURSIVE Replay(_, _, _, _, _, _, _)
Replay(w0, traj, vs0, zz, al, disc, n) ==
    IF n > Len(traj) THEN w0
    ELSE LET prev == Replay(w0, traj, vs0, zz, al, disc, n + 1)
             next == IF n = Len(traj) THEN FMul(FSub(zz, F(5000, -4)), F(2000, -3))
                     ELSE vs0[n + 1]
             dl == PyMax(PyMin(FSub(FMul(disc, next), vs0[n]), F(1000, -3)),
                         F(-1000, -3))
         IN  [i \in 1..Len(w0) |->
                FMul(FAdd(prev[i],
                          PyMax(PyMin(FMul(FMul(al, dl), traj[n][1][i]),
                                      F(5000, -5)), F(-5000, -5))),
                     F(9999, -4))]

\* C10: td_update processes the plies from the last to the first, and the TD
\* error of each is clamp(discount * next - V[n]) with V the values of the
\* stored features under the weights td_update was called with, next being
\* V[n+1], or 2*(z - 0.5) for the last ply.
C10_ValueSnapshot ==
    (pc \in {"td", "loop"} /\ update # <<>>) =>
       LET T == Len(states_feats)
           n == t + 1
           vs0 == [j \in 1..T |-> value(w_td, states_feats[j][1])]
           next == IF n = T THEN FMul(FSub(z, F(5000, -4)), F(2000, -3))
                   ELSE vs0[n + 1]
       IN  /\ n \in 1..T
           /\ delta = PyMax(PyMin(FSub(FMul(discount, next), vs0[n]),
                                  F(1000, -3)), F(-1000, -3))
           /\ w = Replay(w_td, states_feats, vs0, z, alpha, discount, n)

\* C10 witness: the first ply of a two-ply trajectory was processed after the
\* second had changed the weights and with them the value of its features.
C10_Witness ==
    /\ pc = "loop" /\ update # <<>> /\ Len(states_feats) = 2 /\ t = 0
    /\ discount # DISCOUNT
    /\ value(w_td, states_feats[1][1]) # value(w, states_feats[1][1])

=============================================================================
